---------------------------- MODULE Spec2Model ----------------------------
(***************************************************************************)
(* Model of the mempool listener: the bounded polling pipeline             *)
(* (src/fetchhhh.ts), the push + backfill pipeline (src/id.ts) and the     *)
(* TTLSet class they are built on.                                         *)
(*                                                                         *)
(* Encoding of strings.  A transaction hash is a positive integer k (its   *)
(* canonical lower-case spelling); -k is a spelling of the same hash with  *)
(* upper-case hex digits; 0 is a missing / empty / non-string value.       *)
(* Addresses are encoded the same way.  toLowerCase is ToLower.            *)
(*                                                                         *)
(* Time is a bounded integer clock (Date.now()); one unit stands for an    *)
(* arbitrary number of milliseconds.                                       *)
(***************************************************************************)
EXTENDS Integers, Sequences, FiniteSets, TLC

(***************************************************************************)
(* Bounds of the model.                                                    *)
(***************************************************************************)
\* number of distinct transaction hashes
NumHashes == 3
\* last value of the clock
MaxTime == 3
\* longest list one pool listing returns
MaxList == 3
\* appends to the output file that may fail in one run, and the number of
\* distinct hashes a run with failing appends is explored with
MaxWriteFail == 1
FailHashes == 2

(***************************************************************************)
(* Tuning constants of fetchhhh.ts, scaled down.                           *)
(***************************************************************************)
MAX_RETRY == 2
CONCURRENCY == 2
SEEN_TTL_MS == 1
SEEN_MAX == 2
SAVED_TTL_MS == 2
SAVED_MAX == 2
MAX_QUEUE == 2
CLEAN_EVERY == 3

Hashes == 1..NumHashes

\* String.prototype.toLowerCase on the encoding above
ToLower(s) == IF s < 0 THEN -s ELSE s

Min(a, b) == IF a < b THEN a ELSE b

(***************************************************************************)
(* class TTLSet.  The Map m is the sequence of its entries in insertion    *)
(* order (the order a JavaScript Map iterates in); addCount is kept modulo *)
(* CLEAN_EVERY, the only way the code reads it.                            *)
(***************************************************************************)
NewTTLSet(ttl, max) == [m |-> <<>>, ttl |-> ttl, max |-> max, addCount |-> 0]

\* index of key k in the map, 0 when absent
MapIndex(m, k) ==
    IF \E i \in 1..Len(m) : m[i].k = k
    THEN CHOOSE i \in 1..Len(m) : m[i].k = k
    ELSE 0

MapKeys(m) == {m[i].k : i \in 1..Len(m)}

\* Map.get
MapGet(m, k) == m[MapIndex(m, k)].exp

\* Map.delete
MapDelete(m, k) == SelectSeq(m, LAMBDA e : e.k # k)

\* Map.set: an existing key keeps its place, a new key goes last
MapSet(m, k, v) ==
    IF MapIndex(m, k) # 0
    THEN [m EXCEPT ![MapIndex(m, k)].exp = v]
    ELSE Append(m, [k |-> k, exp |-> v])

\* has() with the expiry test "t <= Date.now()": a key is gone one tick early
TTLHasEarly(s, k, t) ==
    /\ MapIndex(s.m, k) # 0
    /\ ~(MapGet(s.m, k) <= t)

\* TTLSet.has: the value returned
TTLHas(s, k, t) ==
    /\ MapIndex(s.m, k) # 0
    /\ ~(MapGet(s.m, k) < t)

\* TTLSet.has: the set it leaves (an expired entry is deleted)
TTLAfterHas(s, k, t) ==
    IF MapIndex(s.m, k) # 0 /\ MapGet(s.m, k) < t
    THEN [s EXCEPT !.m = MapDelete(s.m, k)]
    ELSE s

\* Array.prototype.sort((a, b) => a[1] - b[1]): stable, ascending expiry
RECURSIVE SortByExpiry(_)
SortByExpiry(arr) ==
    IF Len(arr) <= 1 THEN arr
    ELSE LET rest == SortByExpiry(SubSeq(arr, 1, Len(arr) - 1))
             x == arr[Len(arr)]
             \* x goes after every entry whose expiry is <= its own
             n == Cardinality({i \in 1..Len(rest) : rest[i].exp <= x.exp})
         IN SubSeq(rest, 1, n) \o <<x>> \o SubSeq(rest, n + 1, Len(rest))

\* step 1 of cleanup: delete the expired entries
DropExpired(m, t) == SelectSeq(m, LAMBDA e : ~(e.exp < t))

\* the size trim taken from the wrong end of the sorted array
TrimToMaxLatest(m, max) ==
    IF Len(m) > max
    THEN LET arr == SortByExpiry(m)
             toRemove == Len(m) - max
             gone == {arr[i].k : i \in (Len(m) - toRemove + 1)..Len(m)}
         IN SelectSeq(m, LAMBDA e : e.k \notin gone)
    ELSE m

\* the size trim with toRemove one short
TrimToMaxShort(m, max) ==
    IF Len(m) > max
    THEN LET arr == SortByExpiry(m)
             toRemove == Len(m) - max - 1
             gone == {arr[i].k : i \in 1..toRemove}
         IN SelectSeq(m, LAMBDA e : e.k \notin gone)
    ELSE m

\* step 2 of cleanup: when still over max, delete the earliest-expiring excess
TrimToMax(m, max) ==
    IF Len(m) > max
    THEN LET arr == SortByExpiry(m)
             toRemove == Len(m) - max
             gone == {arr[i].k : i \in 1..toRemove}
         IN SelectSeq(m, LAMBDA e : e.k \notin gone)
    ELSE m

\* TTLSet.cleanup
TTLCleanup(s, t) == [s EXCEPT !.m = TrimToMax(DropExpired(s.m, t), s.max)]

\* add() cleaning up only every CLEAN_EVERY adds, whatever the size
AddCleansPeriodic(count, size, max) == count % CLEAN_EVERY = 0

\* the condition of TTLSet.add under which it runs cleanup
AddCleans(count, size, max) == count % CLEAN_EVERY = 0 \/ size > max

\* TTLSet.add
TTLAdd(s, k, t) ==
    LET m1 == MapSet(s.m, k, t + s.ttl)
        c1 == (s.addCount + 1) % CLEAN_EVERY
        s1 == [s EXCEPT !.m = m1, !.addCount = c1]
    IN IF AddCleans(c1, Len(m1), s.max) THEN TTLCleanup(s1, t) ELSE s1

TTLSize(s) == Len(s.m)

(***************************************************************************)
(* The node.  A transaction's recipient is a function of its hash: hash 1  *)
(* is sent to the target (reported in checksum case, as ethers does), 2 to *)
(* another address, 3 has no recipient, 4 is sent to the target.           *)
(***************************************************************************)
TARGET_LITERAL == -1
OTHER_ADDRESS == ToLower(TARGET_LITERAL) + 1

\* const targetAddress = "0x66a9...".toLowerCase()
targetAddress == ToLower(TARGET_LITERAL)

Recipient(h) ==
    CASE h % 4 = 1 -> TARGET_LITERAL
      [] h % 4 = 2 -> OTHER_ADDRESS
      [] h % 4 = 3 -> 0
      [] OTHER -> targetAddress

\* the detail provider.getTransaction resolves to for hash h
TxOf(h) == [hash |-> h, to |-> Recipient(h)]

\* spellings in which a source may report a hash: hash 1 also in upper case
RawHashes == Hashes \cup {-1}

\* what one call of provider.getTransaction(h) may do; q[i] read past the end
\* of the queue is undefined (0), for which the call can only fail
FetchOutcomes(h) == IF h = 0 THEN {"throw"} ELSE {"tx", "null", "throw"}

RECURSIVE SeqsUpTo(_, _)
SeqsUpTo(S, n) ==
    IF n = 0 THEN {<<>>}
    ELSE LET shorter == SeqsUpTo(S, n - 1)
         IN shorter \cup {Append(s, x) : s \in {t \in shorter : Len(t) = n - 1}, x \in S}

\* a pool listing holds every transaction once: at most MaxList hashes, no
\* hash twice, in any order and spelling
AllLists ==
    {l \in SeqsUpTo(RawHashes, MaxList) :
        \A i, j \in 1..Len(l) : ToLower(l[i]) = ToLower(l[j]) => i = j}

\* the lists of hashes a pool listing may return when the pool holds `hs`
PoolLists(hs) == {l \in AllLists : \A i \in 1..Len(l) : ToLower(l[i]) \in hs}

\* a run is explored either with every hash and no failing append, or with
\* FailHashes hashes and up to MaxWriteFail failing appends
Runs == {[pool |-> Hashes, fails |-> 0],
         [pool |-> 1..FailHashes, fails |-> MaxWriteFail]}

Count(seq, x) == Cardinality({i \in 1..Len(seq) : seq[i] = x})
Range(seq) == {seq[i] : i \in 1..Len(seq)}

(***************************************************************************)
(* State.  One behaviour runs one script, or exercises one component.     *)
(***************************************************************************)
VARIABLES
    prog,       \* the script that runs: "fetchhhh", "id"; or the component
                \* exercised on its own: "ttlset", "enqueue", "retry", "batch",
                \* "backfill"
    pool,       \* the hashes the node's pool may hold in this run
    failBudget  \* how many more appendFileSync calls may throw in this run

\* the polling pipeline, src/fetchhhh.ts
VARIABLES
    now,        \* Date.now()
    seen,       \* const seen = new TTLSet(SEEN_TTL_MS, SEEN_MAX)
    saved,      \* const saved = new TTLSet(SAVED_TTL_MS, SAVED_MAX)
    q,          \* const q: string[]
    file,       \* the lines appended to outputFile (the hash of each)
    pc,         \* where loop() is suspended: "list", "process", "sleep"
    method,     \* the listing method listPendingHashes waits for (1..3); 4: it threw
    calls,      \* the processQueue calls with workers still running
    peak,       \* the longest the queue was during the last enqueueMany
    cut,        \* the entries the last enqueueMany dropped from the queue
    dropped     \* the hashes an overflow trim removed from the queue whose seen
                \* entry has been unexpired and in the set ever since

\* one call of enqueueMany, processQueue or backfillTxpool on its own
VARIABLES
    capacity,   \* MAX_QUEUE of this run
    before,     \* the queue when enqueueMany is called
    arg,        \* the argument of enqueueMany; the snapshot backfillTxpool gets
    returned    \* whether the call has returned

\* one TTLSet on its own
VARIABLES
    set,        \* the TTLSet
    addedAt,    \* per key, when it was last added (-1: never)
    evicted,    \* the keys cleanup deleted unexpired, over max, since their last add
    last        \* the last operation: [op, k, res, cleaned]

\* one getTxWithRetry / fetchTxWithRetry call on its own
VARIABLES
    script,     \* whose function runs: "fetchhhh" or "id"
    rhash,      \* its argument
    retry,      \* its state [st, n]
    hist        \* what happened so far: "call", "tx", "null", "throw", "sleep"

\* the push + backfill pipeline, src/id.ts
VARIABLES
    idQ,        \* const q: string[]
    idSeen,     \* const seen = new Set<string>()
    idSaved,    \* const saved = new Set<string>()
    idFile,     \* the lines appended to outputFile (the hash of each)
    tasks,      \* the fetchTxWithRetry calls in flight: [tick, h, r]
    ticks,      \* worker() calls made so far
    pushed,     \* the matching hashes the push source delivered so far
    filled,     \* the matching hashes the backfill source delivered so far
    resolved,   \* the hashes whose fetch resolved with a detail
    lost        \* the hashes whose record could not be appended (by either script)

runVars == <<prog, pool, failBudget>>
pollVars == <<now, seen, saved, q, file, pc, method, calls, peak, cut, dropped>>
enqVars == <<capacity, before, arg, returned>>
setVars == <<set, addedAt, evicted, last>>
retryVars == <<script, rhash, retry, hist>>
idVars == <<idQ, idSeen, idSaved, idFile, tasks, ticks, pushed, filled, resolved, lost>>

vars == <<runVars, pollVars, enqVars, setVars, retryVars, idVars>>

\* the state of a part that does not run
PollIdle ==
    /\ now = 0
    /\ seen = NewTTLSet(SEEN_TTL_MS, SEEN_MAX)
    /\ saved = NewTTLSet(SAVED_TTL_MS, SAVED_MAX)
    /\ q = <<>>
    /\ file = <<>>
    /\ pc = "list"
    /\ method = 1
    /\ calls = <<>>
    /\ peak = 0
    /\ cut = <<>>
    /\ dropped = {}

EnqIdle == capacity = MAX_QUEUE /\ before = <<>> /\ arg = <<>> /\ returned = FALSE

SetIdle ==
    /\ set = NewTTLSet(SEEN_TTL_MS, SEEN_MAX)
    /\ addedAt = [k \in Hashes |-> -1]
    /\ evicted = {}
    /\ last = [op |-> "new", k |-> 0, res |-> FALSE, cleaned |-> FALSE]

RetryIdle == script = "fetchhhh" /\ rhash = 0 /\ retry = [st |-> "idle", n |-> 0] /\ hist = <<>>

IdIdle ==
    /\ idQ = <<>>
    /\ idSeen = {}
    /\ idSaved = {}
    /\ idFile = <<>>
    /\ tasks = {}
    /\ ticks = 0
    /\ pushed = {}
    /\ filled = {}
    /\ resolved = {}
    /\ lost = {}

\* a splice that removes nothing
SpliceNothing(qv, n) == qv

\* q.splice(0, n): what stays, and what is removed
Splice(qv, n) == SubSeq(qv, Min(n, Len(qv)) + 1, Len(qv))
Spliced(qv, n) == SubSeq(qv, 1, Min(n, Len(qv)))

\* the drop count rounded down instead of up
DropCountFloor(maxQueue) == maxQueue \div 100

\* Math.ceil(MAX_QUEUE * 0.01)
DropCount(maxQueue) == (maxQueue + 99) \div 100

\* the loop body of enqueueMany with the capacity test "q.length > MAX_QUEUE"
EnqueueOneLate(raw, qv, sn, t, maxQueue) ==
    LET h == ToLower(raw)
        full == Len(qv) > maxQueue
        q1 == IF full THEN Splice(qv, DropCount(maxQueue)) ELSE qv
    IN IF h = 0 THEN [q |-> qv, seen |-> sn, cut |-> <<>>]
       ELSE IF TTLHas(sn, h, t) THEN [q |-> qv, seen |-> TTLAfterHas(sn, h, t), cut |-> <<>>]
       ELSE [q |-> Append(q1, h),
             seen |-> TTLAdd(TTLAfterHas(sn, h, t), h, t),
             cut |-> IF full THEN Spliced(qv, DropCount(maxQueue)) ELSE <<>>]

(***************************************************************************)
(* enqueueMany: the body of its loop for one element of the argument.      *)
(* Returns the queue and the seen set it leaves, and the entries dropped.  *)
(***************************************************************************)
EnqueueOne(raw, qv, sn, t, maxQueue) ==
    LET h == ToLower(raw)
        full == Len(qv) >= maxQueue
        q1 == IF full THEN Splice(qv, DropCount(maxQueue)) ELSE qv
    IN IF h = 0 THEN [q |-> qv, seen |-> sn, cut |-> <<>>]
       ELSE IF TTLHas(sn, h, t) THEN [q |-> qv, seen |-> TTLAfterHas(sn, h, t), cut |-> <<>>]
       ELSE [q |-> Append(q1, h),
             seen |-> TTLAdd(TTLAfterHas(sn, h, t), h, t),
             cut |-> IF full THEN Spliced(qv, DropCount(maxQueue)) ELSE <<>>]

\* of the hashes hs, those that TTLSet sn held at time t before a step and
\* that it holds after it, as TTLSet sn1
StillSeen(hs, sn, sn1, t) == {x \in hs : TTLHas(sn, x, t) /\ TTLHas(sn1, x, t)}

\* enqueueMany(hashes) from the state acc = [q, seen, peak, cut, held]; held
\* are the hashes trimmed off the queue that seen has held since; peak is the
\* greatest length the queue had after any push.  (The one-element set makes
\* TLC evaluate each turn of the loop once.)
RECURSIVE EnqueueFrom(_, _, _, _)
EnqueueFrom(hashes, acc, t, maxQueue) ==
    IF hashes = <<>> THEN acc
    ELSE CHOOSE res \in
           {EnqueueFrom(Tail(hashes),
                        [q |-> r.q, seen |-> r.seen,
                         peak |-> IF Len(r.q) > acc.peak THEN Len(r.q) ELSE acc.peak,
                         cut |-> acc.cut \o r.cut,
                         held |-> StillSeen(acc.held \cup Range(r.cut),
                                            acc.seen, r.seen, t)],
                        t, maxQueue) :
              r \in {EnqueueOne(Head(hashes), acc.q, acc.seen, t, maxQueue)}} : TRUE

EnqueueMany(hashes, qv, sn, t, maxQueue) ==
    EnqueueFrom(hashes, [q |-> qv, seen |-> sn, peak |-> Len(qv), cut |-> <<>>,
                         held |-> {}],
                t, maxQueue)

\* the recipient test without "!to": a missing recipient passes
MatchesOrMissing(tx) == ToLower(tx.to) = 0 \/ ToLower(tx.to) = targetAddress

(***************************************************************************)
(* saveIfMatch of fetchhhh.ts.  ok: whether appendFileSync succeeds.       *)
(* Returns the saved set and the file it leaves, whether it threw, and     *)
(* what it did with the detail.                                            *)
(***************************************************************************)
Matches(tx) == ToLower(tx.to) # 0 /\ ToLower(tx.to) = targetAddress

\* saveIfMatch without "if (saved.has(h)) return"
SaveIfMatchUnguarded(tx, sv, fl, t, ok) ==
    LET h == ToLower(tx.hash)
    IN IF ~Matches(tx)
       THEN [saved |-> sv, file |-> fl, threw |-> FALSE, did |-> "ignored"]
       ELSE IF ~ok
       THEN [saved |-> sv, file |-> fl, threw |-> TRUE, did |-> "failed"]
       ELSE [saved |-> TTLAdd(sv, h, t),
             file |-> Append(fl, h), threw |-> FALSE, did |-> "saved"]

SaveIfMatch(tx, sv, fl, t, ok) ==
    LET h == ToLower(tx.hash)
    IN IF ~Matches(tx)
       THEN [saved |-> sv, file |-> fl, threw |-> FALSE, did |-> "ignored"]
       ELSE IF TTLHas(sv, h, t)
       THEN [saved |-> TTLAfterHas(sv, h, t), file |-> fl, threw |-> FALSE, did |-> "dup"]
       ELSE IF ~ok
       THEN [saved |-> TTLAfterHas(sv, h, t), file |-> fl, threw |-> TRUE, did |-> "failed"]
       ELSE [saved |-> TTLAdd(TTLAfterHas(sv, h, t), h, t),
             file |-> Append(fl, h), threw |-> FALSE, did |-> "saved"]

(***************************************************************************)
(* getTxWithRetry of fetchhhh.ts as a state machine [st, n]: "fetch"       *)
(* (provider.getTransaction pending, loop index i = n), "sleep" (in the    *)
(* backoff after attempt n), "tx" (returned the detail), "null" (returned  *)
(* null).                                                                  *)
(***************************************************************************)
GetTxCall == [st |-> "fetch", n |-> 0]

\* the pending call settles with outcome o: "tx", "null" or "throw"
GetTxSettled(r, o) ==
    IF o = "tx" THEN [r EXCEPT !.st = "tx"] ELSE [r EXCEPT !.st = "sleep"]

\* the retry loop with the bound "i <= MAX_RETRY"
GetTxWokenOnceMore(r) ==
    IF r.n + 1 <= MAX_RETRY
    THEN [st |-> "fetch", n |-> r.n + 1]
    ELSE [st |-> "null", n |-> r.n + 1]

\* the backoff sleep ends: i++, and the loop condition i < MAX_RETRY
GetTxWoken(r) ==
    IF r.n + 1 < MAX_RETRY
    THEN [st |-> "fetch", n |-> r.n + 1]
    ELSE [st |-> "null", n |-> r.n + 1]

(***************************************************************************)
(* processQueue.  A call is [idx, N, live, ws, res]: the closure variables *)
(* idx and N, whether loop() still awaits the call, its workers, and       *)
(* (history) what became of each index of the batch: "none" so far, "null" *)
(* (getTxWithRetry returned null), or what saveIfMatch did with the detail.*)
(* A worker is [i, h, r]: the index it claimed, q[i] as read then, and the *)
(* state r of its getTxWithRetry; r.st is "done" once worker() returned    *)
(* and "threw" once it rejected.                                           *)
(***************************************************************************)
DoneWorker == [i |-> 0, h |-> 0, r |-> [st |-> "done", n |-> 0]]
ThrewWorker == [i |-> 0, h |-> 0, r |-> [st |-> "threw", n |-> 0]]

\* q[i] of the zero-based array; undefined (0) past its end
QAt(qv, i) == IF i + 1 <= Len(qv) THEN qv[i + 1] ELSE 0

\* worker() with the index advanced twice per turn
ClaimNextSkips(ctx, w, qv) ==
    [ctx EXCEPT !.idx = ctx.idx + 2,
                !.ws[w] = IF ctx.idx >= ctx.N THEN DoneWorker
                          ELSE [i |-> ctx.idx, h |-> QAt(qv, ctx.idx), r |-> GetTxCall]]

\* worker(): const i = idx++; if (i >= N) break; const h = q[i];
\* getTxWithRetry(h) up to its first await
ClaimNext(ctx, w, qv) ==
    [ctx EXCEPT !.idx = ctx.idx + 1,
                !.ws[w] = IF ctx.idx >= ctx.N THEN DoneWorker
                          ELSE [i |-> ctx.idx, h |-> QAt(qv, ctx.idx), r |-> GetTxCall]]

RECURSIVE SpawnWorkers(_, _, _)
SpawnWorkers(ctx, w, qv) ==
    IF w > Len(ctx.ws) THEN ctx
    ELSE SpawnWorkers(ClaimNext(ctx, w, qv), w + 1, qv)

\* the number of workers processQueue spawns for a batch of N
WorkerCount(N) == Min(CONCURRENCY, N)

\* processQueue up to await Promise.all(workers), for a given MAX_QUEUE
StartCallOn(qv, maxQueue) ==
    LET N == Min(Len(qv), maxQueue)
    IN SpawnWorkers([idx |-> 0, N |-> N, live |-> TRUE,
                     ws |-> [w \in 1..WorkerCount(N) |-> DoneWorker],
                     res |-> [i \in 0..(N - 1) |-> "none"]], 1, qv)

\* processQueue up to await Promise.all(workers)
StartCall(qv) == StartCallOn(qv, MAX_QUEUE)

Active(ctx) == \E w \in 1..Len(ctx.ws) : ctx.ws[w].r.st \in {"fetch", "sleep"}
AllDone(ctx) == \A w \in 1..Len(ctx.ws) : ctx.ws[w].r.st = "done"

\* the calls the model keeps: the awaited one and those with running workers
Running(cs) == SelectSeq(cs, LAMBDA x : x.live \/ Active(x))

RemoveAt(seq, i) == SubSeq(seq, 1, i - 1) \o SubSeq(seq, i + 1, Len(seq))

\* if (Math.random() < 0.1) { seen.cleanup(); saved.cleanup(); }
MaybeCleanup(s, t, clean) == IF clean THEN TTLCleanup(s, t) ELSE s

\* what processQueue does once Promise.all resolved: q.splice(0, N)
BatchRemoved(qv, ctx) == Splice(qv, ctx.N)

PollFrame ==
    UNCHANGED <<prog, pool, enqVars, setVars, retryVars,
                idQ, idSeen, idSaved, idFile, tasks, ticks, pushed, filled, resolved>>

(***************************************************************************)
(* What follows a worker's step of call c in the same turn of the event    *)
(* loop: a rejection of the awaited call is caught by loop(), which goes   *)
(* to sleep; the return of its last worker resolves Promise.all, the batch *)
(* is spliced off and loop() finishes its cycle.  ctx2, sv, fl: the call,  *)
(* the saved set and the file as the worker's step left them.              *)
(***************************************************************************)
Settle(c, ctx2, sv, fl, threw) ==
    /\ file' = fl
    /\ \/ /\ ctx2.live /\ threw
          /\ pc' = "sleep"
          /\ calls' = Running([calls EXCEPT ![c] = [ctx2 EXCEPT !.live = FALSE]])
          /\ saved' = sv
          /\ UNCHANGED <<q, seen>>
       \/ /\ ctx2.live /\ ~threw /\ AllDone(ctx2)
          /\ \E clean \in BOOLEAN :
                /\ seen' = MaybeCleanup(seen, now, clean)
                /\ saved' = MaybeCleanup(sv, now, clean)
          /\ q' = BatchRemoved(q, ctx2)
          /\ calls' = RemoveAt(calls, c)
          /\ pc' = "sleep"
       \/ /\ ~(ctx2.live /\ (threw \/ AllDone(ctx2)))
          /\ calls' = Running([calls EXCEPT ![c] = ctx2])
          /\ saved' = sv
          /\ UNCHANGED <<q, seen, pc>>

\* an expired seen entry ends the watch on a trimmed hash
KeepDropped == dropped' = StillSeen(dropped, seen, seen', now')

PollInit ==
    /\ prog = "fetchhhh"
    /\ \E run \in Runs : pool = run.pool /\ failBudget = run.fails
    /\ PollIdle /\ EnqIdle /\ SetIdle /\ RetryIdle /\ IdIdle

\* time passes while loop() and the workers are suspended
Tick ==
    /\ prog = "fetchhhh"
    /\ now < MaxTime
    /\ now' = now + 1
    /\ UNCHANGED <<seen, saved, q, file, pc, method, calls, peak, cut, failBudget, lost>>
    /\ KeepDropped
    /\ PollFrame

\* listPendingHashes resolves with the pool's hashes; in the same turn loop()
\* runs enqueueMany(list) and calls processQueue, which on an empty queue
\* returns at once (loop() then finishes its cycle) and otherwise spawns its
\* workers and awaits them
ListReturns ==
    /\ prog = "fetchhhh"
    /\ pc = "list"
    /\ \E list \in PoolLists(pool) :
          \E r \in {EnqueueFrom(list, [q |-> q, seen |-> seen, peak |-> Len(q),
                                      cut |-> <<>>, held |-> dropped],
                                now, MAX_QUEUE)} :
             /\ q' = r.q
             /\ peak' = r.peak
             /\ cut' = r.cut
             /\ dropped' = r.held
             /\ \/ /\ r.q = <<>>
                   /\ \E clean \in BOOLEAN :
                         /\ seen' = MaybeCleanup(r.seen, now, clean)
                         /\ saved' = MaybeCleanup(saved, now, clean)
                   /\ pc' = "sleep"
                   /\ UNCHANGED calls
                \/ /\ r.q # <<>>
                   /\ calls' = Append(calls, StartCall(r.q))
                   /\ pc' = "process"
                   /\ seen' = r.seen
                   /\ UNCHANGED saved
    /\ UNCHANGED <<now, file, method, failBudget, lost>>
    /\ PollFrame

\* the methods listPendingHashes sends, in the order it tries them
ListMethods == <<"txpool_content", "eth_pendingTransactions", "parity_pendingTransactions">>
\* a fallback that leaves out the method after the failed one
AfterFailureSkips(m) == m + 2
\* the catch a failed method lands in: the next method of the list, or,
\* past the last, the throw of listPendingHashes
AfterFailure(m) == m + 1

\* listPendingHashes: the pending provider.send rejects; the next method is
\* tried, and after the third the error reaches the catch of loop()
ListFails ==
    /\ prog = "fetchhhh"
    /\ pc = "list"
    /\ method' = AfterFailure(method)
    /\ \/ /\ AfterFailure(method) <= Len(ListMethods)
          /\ pc' = pc
       \/ /\ AfterFailure(method) > Len(ListMethods)
          /\ pc' = "sleep"
    /\ UNCHANGED <<now, seen, saved, q, file, calls, peak, cut, dropped, failBudget, lost>>
    /\ PollFrame

\* a pending provider.getTransaction settles: with a detail, with null or
\* with an error.  With a detail getTxWithRetry returns it, the worker runs
\* saveIfMatch and claims its next index.
FetchSettles ==
    /\ prog \in {"fetchhhh", "batch"}
    /\ \E c \in 1..Len(calls) : \E w \in 1..Len(calls[c].ws) :
       LET ctx == calls[c]
           me == ctx.ws[w]
       IN /\ me.r.st = "fetch"
          /\ \E o \in FetchOutcomes(me.h) :
                \/ /\ GetTxSettled(me.r, o).st = "tx"
                   /\ \E ok \in BOOLEAN :
                        \E s \in {SaveIfMatch(TxOf(me.h), saved, file, now, ok)} :
                           /\ ok \/ (s.threw /\ failBudget > 0)
                           /\ failBudget' = failBudget - (IF s.threw THEN 1 ELSE 0)
                           /\ lost' = IF s.threw THEN lost \cup {ToLower(me.h)} ELSE lost
                           /\ Settle(c, IF s.threw
                                        THEN [ctx EXCEPT !.ws[w] = ThrewWorker,
                                                         !.res[me.i] = s.did]
                                        ELSE ClaimNext([ctx EXCEPT !.res[me.i] = s.did], w, q),
                                     s.saved, s.file, s.threw)
                \/ /\ GetTxSettled(me.r, o).st = "sleep"
                   /\ calls' = [calls EXCEPT ![c].ws[w].r = GetTxSettled(me.r, o)]
                   /\ UNCHANGED <<seen, saved, q, file, pc, failBudget, lost>>
    /\ UNCHANGED <<now, method, peak, cut>>
    /\ KeepDropped
    /\ PollFrame

\* the backoff sleep of getTxWithRetry ends: the next attempt, or it returns
\* null and the worker claims its next index
BackoffEnds ==
    /\ prog \in {"fetchhhh", "batch"}
    /\ \E c \in 1..Len(calls) : \E w \in 1..Len(calls[c].ws) :
       LET ctx == calls[c]
           me == ctx.ws[w]
       IN /\ me.r.st = "sleep"
          /\ \/ /\ GetTxWoken(me.r).st = "fetch"
                /\ calls' = [calls EXCEPT ![c].ws[w].r = GetTxWoken(me.r)]
                /\ UNCHANGED <<seen, saved, q, file, pc>>
             \/ /\ GetTxWoken(me.r).st = "null"
                /\ Settle(c, ClaimNext([ctx EXCEPT !.res[me.i] = "null"], w, q),
                          saved, file, FALSE)
    /\ UNCHANGED <<now, method, peak, cut, failBudget, lost>>
    /\ KeepDropped
    /\ PollFrame

\* the sleep at the end of a cycle of loop() ends: the next cycle starts
\* with provider.send("txpool_content")
WakeUp ==
    /\ prog = "fetchhhh"
    /\ pc = "sleep"
    /\ pc' = "list"
    /\ method' = 1
    /\ UNCHANGED <<now, seen, saved, q, file, calls, peak, cut, dropped, failBudget, lost>>
    /\ PollFrame

PollNext ==
    \/ Tick
    \/ ListReturns
    \/ ListFails
    \/ FetchSettles
    \/ BackoffEnds
    \/ WakeUp

SpecPoll == PollInit /\ [][PollNext]_vars

(***************************************************************************)
(* A TTLSet on its own: add, has and cleanup called in any order, at any  *)
(* time, on any key.                                                       *)
(***************************************************************************)
\* new TTLSet(ttl, max) of the standalone run
SetTtl == 2
SetMax == 2

Unexpired(m, t) == {m[i].k : i \in {j \in 1..Len(m) : ~(m[j].exp < t)}}
\* the keys an operation deleted although they had not expired
Evicted(m0, m1, t) == Unexpired(m0, t) \ MapKeys(m1)
SetFrame ==
    UNCHANGED <<runVars, enqVars, retryVars, idVars>>

SetInit ==
    /\ prog = "ttlset"
    /\ pool = Hashes
    /\ failBudget = 0
    /\ set = NewTTLSet(SetTtl, SetMax)
    /\ addedAt = [k \in Hashes |-> -1]
    /\ evicted = {}
    /\ last = [op |-> "new", k |-> 0, res |-> FALSE, cleaned |-> FALSE]
    /\ PollIdle /\ EnqIdle /\ RetryIdle /\ IdIdle

\* set.add(k)
SetAdd ==
    /\ prog = "ttlset"
    /\ \E k \in Hashes :
          LET m1 == MapSet(set.m, k, now + set.ttl)
              c1 == (set.addCount + 1) % CLEAN_EVERY
          IN /\ set' = TTLAdd(set, k, now)
             /\ addedAt' = [addedAt EXCEPT ![k] = now]
             /\ evicted' = (evicted \ {k}) \cup Evicted(m1, set'.m, now)
             /\ last' = [op |-> "add", k |-> k, res |-> FALSE,
                         cleaned |-> AddCleans(c1, Len(m1), set.max)]
    /\ UNCHANGED pollVars
    /\ SetFrame

\* set.has(k)
SetHas ==
    /\ prog = "ttlset"
    /\ \E k \in Hashes :
          /\ set' = TTLAfterHas(set, k, now)
          /\ last' = [op |-> "has", k |-> k, res |-> TTLHas(set, k, now), cleaned |-> FALSE]
    /\ UNCHANGED <<addedAt, evicted>>
    /\ UNCHANGED pollVars
    /\ SetFrame

\* set.cleanup()
SetCleanup ==
    /\ prog = "ttlset"
    /\ set' = TTLCleanup(set, now)
    /\ evicted' = evicted \cup Evicted(set.m, set'.m, now)
    /\ last' = [op |-> "cleanup", k |-> 0, res |-> FALSE, cleaned |-> TRUE]
    /\ UNCHANGED addedAt
    /\ UNCHANGED pollVars
    /\ SetFrame

\* time passes between two calls
SetTick ==
    /\ prog = "ttlset"
    /\ now < MaxTime
    /\ now' = now + 1
    /\ last' = [op |-> "tick", k |-> 0, res |-> FALSE, cleaned |-> FALSE]
    /\ UNCHANGED <<seen, saved, q, file, pc, method, calls, peak, cut, dropped>>
    /\ UNCHANGED <<set, addedAt, evicted>>
    /\ SetFrame

SetNext == SetAdd \/ SetHas \/ SetCleanup \/ SetTick
SpecTTL == SetInit /\ [][SetNext]_vars

(***************************************************************************)
(* enqueueMany on its own: one call, on a queue that is full or one short *)
(* of full, with hashes never seen before.  The capacities include some   *)
(* of which one per cent is more than one entry.                          *)
(***************************************************************************)
\* most hashes one call is given
MaxNew == 7
Capacities == {MAX_QUEUE, 100, 101, 150}
\* the hashes from..to, in order
Fresh(from, to) == [i \in 1..(to - from + 1) |-> from + i - 1]
\* the seen set after the hashes were added, one by one, at time t
SeenAll(hashes, ttl, max, t) ==
    [m |-> [i \in 1..Len(hashes) |-> [k |-> hashes[i], exp |-> t + ttl]],
     ttl |-> ttl, max |-> max, addCount |-> Len(hashes) % CLEAN_EVERY]
EnqFrame ==
    UNCHANGED <<runVars, setVars, retryVars, idVars>>

EnqInit ==
    /\ prog = "enqueue"
    /\ pool = Hashes
    /\ failBudget = 0
    /\ \E c \in Capacities : \E len \in {c - 1, c} : \E n \in 0..MaxNew :
          /\ capacity = c
          /\ before = Fresh(1, len)
          /\ arg = Fresh(len + 1, len + n)
    /\ returned = FALSE
    /\ now \in {0, SEEN_TTL_MS + 1}
    /\ q = before
    /\ seen = SeenAll(before, SEEN_TTL_MS, 10 * capacity, 0)
    /\ saved = NewTTLSet(SAVED_TTL_MS, SAVED_MAX)
    /\ file = <<>>
    /\ pc = "list"
    /\ method = 1
    /\ calls = <<>>
    /\ peak = Len(before)
    /\ cut = <<>>
    /\ dropped = {}
    /\ SetIdle /\ RetryIdle /\ IdIdle

\* enqueueMany(arg)
EnqCall ==
    /\ prog = "enqueue"
    /\ ~returned
    /\ \E r \in {EnqueueMany(arg, q, seen, now, capacity)} :
          /\ q' = r.q
          /\ seen' = r.seen
          /\ peak' = r.peak
          /\ cut' = r.cut
          /\ dropped' = r.held
    /\ returned' = TRUE
    /\ UNCHANGED <<capacity, before, arg>>
    /\ UNCHANGED <<now, saved, file, pc, method, calls>>
    /\ EnqFrame

EnqNext == EnqCall
SpecEnq == EnqInit /\ [][EnqNext]_vars

(***************************************************************************)
(* One processQueue call on its own, on a queue longer than CONCURRENCY,  *)
(* so that workers go round their loop and claim further indexes.         *)
(***************************************************************************)
\* the hashes of the run: one more than Hashes, so that two go to the target
BatchHashes == 1..(NumHashes + 1)
\* the queues processQueue is called on: up to NumHashes hashes, each once
BatchQueues ==
    {l \in SeqsUpTo(BatchHashes, NumHashes) : l # <<>> /\ Cardinality(Range(l)) = Len(l)}

BatchInit ==
    /\ prog = "batch"
    /\ pool = BatchHashes
    /\ failBudget \in {0, CONCURRENCY}
    /\ capacity = NumHashes
    /\ before = <<>> /\ arg = <<>> /\ returned = FALSE
    /\ now = 0
    /\ q \in BatchQueues
    /\ seen = SeenAll(q, SEEN_TTL_MS, NumHashes, 0)
    /\ saved = NewTTLSet(SAVED_TTL_MS, SAVED_MAX)
    /\ file = <<>>
    /\ pc = "process"
    /\ method = 1
    /\ calls = <<StartCallOn(q, capacity)>>
    /\ peak = Len(q)
    /\ cut = <<>>
    /\ dropped = {}
    /\ SetIdle /\ RetryIdle /\ IdIdle

BatchNext == FetchSettles \/ BackoffEnds
SpecBatch == BatchInit /\ [][BatchNext]_vars

(***************************************************************************)
(* fetchTxWithRetry of src/id.ts, the counterpart of getTxWithRetry.      *)
(***************************************************************************)
\* MAX_RETRY of src/id.ts, scaled down
ID_MAX_RETRY == 3
\* let attempt = 0; while (attempt < MAX_RETRY) { try { await getTransaction
FetchTxCall == IF 0 < ID_MAX_RETRY THEN [st |-> "fetch", n |-> 0] ELSE [st |-> "null", n |-> 0]
\* the call settles: return tx, or attempt++ and wait for the backoff
FetchTxSettled(r, o) ==
    IF o = "tx" THEN [r EXCEPT !.st = "tx"] ELSE [st |-> "sleep", n |-> r.n + 1]
\* the backoff ends: the while condition is tested again
FetchTxWoken(r) ==
    IF r.n < ID_MAX_RETRY THEN [r EXCEPT !.st = "fetch"] ELSE [r EXCEPT !.st = "null"]

(***************************************************************************)
(* One call of getTxWithRetry or fetchTxWithRetry on its own, with a      *)
(* record of what it did.                                                  *)
(***************************************************************************)
RetryCall(s) == IF s = "fetchhhh" THEN GetTxCall ELSE FetchTxCall
RetrySettled(s, r, o) == IF s = "fetchhhh" THEN GetTxSettled(r, o) ELSE FetchTxSettled(r, o)
RetryWoken(s, r) == IF s = "fetchhhh" THEN GetTxWoken(r) ELSE FetchTxWoken(r)
RetryFrame ==
    UNCHANGED <<runVars, pollVars, enqVars, setVars, idVars>>

RetryInit ==
    /\ prog = "retry"
    /\ pool = Hashes
    /\ failBudget = 0
    /\ script \in {"fetchhhh", "id"}
    /\ rhash \in Hashes
    /\ retry = RetryCall(script)
    /\ hist = IF retry.st = "fetch" THEN <<"call">> ELSE <<>>
    /\ PollIdle /\ EnqIdle /\ SetIdle /\ IdIdle

\* provider.getTransaction(hash) returns a detail, returns null, or throws
RetrySettles ==
    /\ prog = "retry"
    /\ retry.st = "fetch"
    /\ \E o \in FetchOutcomes(rhash) :
          /\ retry' = RetrySettled(script, retry, o)
          /\ hist' = hist \o <<o>> \o (IF retry'.st = "sleep" THEN <<"sleep">> ELSE <<>>)
    /\ UNCHANGED <<script, rhash>>
    /\ RetryFrame

\* the backoff timer fires
RetryWakes ==
    /\ prog = "retry"
    /\ retry.st = "sleep"
    /\ retry' = RetryWoken(script, retry)
    /\ hist' = hist \o (IF retry'.st = "fetch" THEN <<"call">> ELSE <<>>)
    /\ UNCHANGED <<script, rhash>>
    /\ RetryFrame

RetryNext == RetrySettles \/ RetryWakes
SpecRetry == RetryInit /\ [][RetryNext]_vars

(***************************************************************************)
(* The push + backfill pipeline of src/id.ts.  seen and saved are plain   *)
(* Sets: nothing expires.  The push source, the backfill timer and the    *)
(* worker timer fire in any order; a worker tick does not wait for the    *)
(* previous one.                                                           *)
(***************************************************************************)
\* BATCH_SIZE of src/id.ts, scaled down
BATCH_SIZE == 2
\* most entries one txpool_content snapshot holds
MaxSnapshot == 2

\* enqueue(hash)
IdEnqueue(raw, st) ==
    LET h == ToLower(raw)
    IN IF raw = 0 THEN st
       ELSE IF h \in st.seen THEN st
       ELSE [q |-> Append(st.q, h), seen |-> st.seen \cup {h}]

\* the recipient test without toLowerCase
IdMatchesExact(tx) == tx.to # 0 /\ tx.to = targetAddress

\* const to = tx.to?.toLowerCase?.(); if (to && to === targetAddress)
IdMatches(tx) == ToLower(tx.to) # 0 /\ ToLower(tx.to) = targetAddress
\* saveIfMatch(tx); ok: whether appendFileSync succeeds.  A failure is
\* caught and logged inside the function.
IdSaveIfMatch(tx, sv, fl, ok) ==
    LET h == ToLower(tx.hash)
    IN IF ~IdMatches(tx) THEN [saved |-> sv, file |-> fl, did |-> "ignored"]
       ELSE IF h \in sv THEN [saved |-> sv, file |-> fl, did |-> "dup"]
       ELSE IF ~ok THEN [saved |-> sv, file |-> fl, did |-> "failed"]
       ELSE [saved |-> sv \cup {h}, file |-> Append(fl, h), did |-> "saved"]

\* One entry of a txpool_content snapshot:
\*   "hash"     the transaction object carries the hash h
\*   "derived"  it carries none, Transaction.from(...) computes h
\*   "broken"   it carries none and Transaction.from(...) throws, or the
\*              transaction object is null
\*   "nonces"   the sender's nonce map is null
Entries ==
    {[kind |-> "hash", h |-> h] : h \in RawHashes}
    \cup {[kind |-> "derived", h |-> h] : h \in Hashes}
    \cup {[kind |-> "broken", h |-> 0], [kind |-> "nonces", h |-> 0]}
Snapshots == SeqsUpTo(Entries, MaxSnapshot)
\* the hash backfillTxpool hands to enqueue for one entry (0: none)
EntryHash(e) == IF e.kind \in {"hash", "derived"} THEN e.h ELSE 0
RECURSIVE Backfill(_, _)
\* the loops of backfillTxpool over the entries of a snapshot;
\* Object.keys(nonces) throws on a null nonce map and ends the call
Backfill(snap, st) ==
    IF snap = <<>> THEN st
    ELSE IF Head(snap).kind = "nonces" THEN st
    ELSE Backfill(Tail(snap), IdEnqueue(EntryHash(Head(snap)), st))
\* the hashes of matching transactions among the hashes given to enqueue
Watched(raws) ==
    {h \in {ToLower(raw) : raw \in raws \ {0}} : ToLower(Recipient(h)) = targetAddress}
\* the hashes a snapshot delivers to enqueue
RECURSIVE Delivered(_)
Delivered(snap) ==
    IF snap = <<>> \/ Head(snap).kind = "nonces" THEN {}
    ELSE {EntryHash(Head(snap))} \cup Delivered(Tail(snap))

IdFrame ==
    UNCHANGED <<prog, pool, pollVars, enqVars, setVars, retryVars>>

IdInit ==
    /\ prog = "id"
    /\ pool = Hashes
    /\ failBudget \in {0, MaxWriteFail}
    /\ IdIdle
    /\ PollIdle /\ EnqIdle /\ SetIdle /\ RetryIdle

\* provider.on("pending", (txHash) => enqueue(txHash))
Push ==
    /\ prog = "id"
    /\ \E raw \in RawHashes \cup {0} :
          \E st \in {IdEnqueue(raw, [q |-> idQ, seen |-> idSeen])} :
             /\ idQ' = st.q
             /\ idSeen' = st.seen
             /\ pushed' = pushed \cup Watched({raw})
    /\ UNCHANGED <<idSaved, idFile, tasks, ticks, filled, resolved, lost, failBudget>>
    /\ IdFrame

\* txpool_content answers a backfillTxpool call
BackfillReturns ==
    /\ prog = "id"
    /\ \E snap \in Snapshots :
          \E st \in {Backfill(snap, [q |-> idQ, seen |-> idSeen])} :
             /\ idQ' = st.q
             /\ idSeen' = st.seen
             /\ filled' = filled \cup Watched(Delivered(snap))
    /\ UNCHANGED <<idSaved, idFile, tasks, ticks, pushed, resolved, lost, failBudget>>
    /\ IdFrame

\* the worker timer fires on a queue that is not empty: worker() takes its
\* batch and starts one fetchTxWithRetry per hash
WorkerTick ==
    /\ prog = "id"
    /\ idQ # <<>>
    /\ ticks' = ticks + 1
    /\ idQ' = Splice(idQ, BATCH_SIZE)
    /\ tasks' = tasks \cup {[tick |-> ticks + 1, h |-> h, r |-> FetchTxCall] :
                              h \in Range(Spliced(idQ, BATCH_SIZE))}
    /\ UNCHANGED <<idSeen, idSaved, idFile, pushed, filled, resolved, lost, failBudget>>
    /\ IdFrame

\* provider.getTransaction settles for one hash of a batch
TaskSettles ==
    /\ prog = "id"
    /\ \E task \in tasks : \E o \in FetchOutcomes(task.h) :
          /\ task.r.st = "fetch"
          /\ \/ /\ FetchTxSettled(task.r, o).st = "tx"
                /\ \E ok \in BOOLEAN :
                     \E s \in {IdSaveIfMatch(TxOf(task.h), idSaved, idFile, ok)} :
                        /\ ok \/ (s.did = "failed" /\ failBudget > 0)
                        /\ failBudget' = failBudget - (IF s.did = "failed" THEN 1 ELSE 0)
                        /\ idSaved' = s.saved
                        /\ idFile' = s.file
                        /\ lost' = IF s.did = "failed" THEN lost \cup {task.h} ELSE lost
                /\ resolved' = resolved \cup {task.h}
                /\ tasks' = tasks \ {task}
             \/ /\ FetchTxSettled(task.r, o).st = "sleep"
                /\ tasks' = (tasks \ {task}) \cup {[task EXCEPT !.r = FetchTxSettled(task.r, o)]}
                /\ UNCHANGED <<idSaved, idFile, resolved, lost, failBudget>>
    /\ UNCHANGED <<idQ, idSeen, ticks, pushed, filled>>
    /\ IdFrame

\* a backoff ends for one hash of a batch
TaskBackoffEnds ==
    /\ prog = "id"
    /\ \E task \in tasks :
          /\ task.r.st = "sleep"
          /\ \/ /\ FetchTxWoken(task.r).st = "fetch"
                /\ tasks' = (tasks \ {task}) \cup {[task EXCEPT !.r = FetchTxWoken(task.r)]}
             \/ /\ FetchTxWoken(task.r).st = "null"
                /\ tasks' = tasks \ {task}
    /\ UNCHANGED <<idQ, idSeen, idSaved, idFile, ticks, pushed, filled, resolved, lost, failBudget>>
    /\ IdFrame

IdNext == Push \/ BackfillReturns \/ WorkerTick \/ TaskSettles \/ TaskBackoffEnds
SpecPush == IdInit /\ [][IdNext]_vars

(***************************************************************************)
(* Either script.                                                          *)
(***************************************************************************)
Init == PollInit \/ IdInit
Next == PollNext \/ IdNext
Spec == Init /\ [][Next]_vars

(***************************************************************************)
(* backfillTxpool on its own: one call, on any snapshot, with any hashes  *)
(* seen before.  A snapshot lists the entries in the order the loops      *)
(* visit them: the pending bucket, then the queued bucket, sender by      *)
(* sender.                                                                 *)
(***************************************************************************)
BackfillFrame ==
    UNCHANGED <<runVars, pollVars, setVars, retryVars,
                idSaved, idFile, tasks, ticks, pushed, filled, resolved, lost>>

BackfillInit ==
    /\ prog = "backfill"
    /\ pool = Hashes
    /\ failBudget = 0
    /\ capacity = MAX_QUEUE
    /\ before = <<>>
    /\ arg \in Snapshots
    /\ returned = FALSE
    /\ idQ = <<>>
    /\ idSeen \in SUBSET Hashes
    /\ idSaved = {}
    /\ idFile = <<>>
    /\ tasks = {}
    /\ ticks = 0
    /\ pushed = {}
    /\ filled = {}
    /\ resolved = {}
    /\ lost = {}
    /\ PollIdle /\ SetIdle /\ RetryIdle

\* backfillTxpool(), from the answer of txpool_content on
BackfillCall ==
    /\ prog = "backfill"
    /\ ~returned
    /\ \E st \in {Backfill(arg, [q |-> idQ, seen |-> idSeen])} :
          /\ idQ' = st.q
          /\ idSeen' = st.seen
    /\ returned' = TRUE
    /\ UNCHANGED <<capacity, before, arg>>
    /\ BackfillFrame

BackfillNext == BackfillCall
SpecBackfill == BackfillInit /\ [][BackfillNext]_vars

(***************************************************************************)
(* Properties of the polling pipeline                                      *)
(***************************************************************************)
\* the processQueue call loop() awaits, when there is one
LiveCalls == {c \in 1..Len(calls) : calls[c].live}

\* C2 as stated: over the whole execution at most one record is appended
\* for any hash.
C2_AtMostOneRecordEver ==
    \A h \in Hashes : Count(file, h) <= 1

\* C2 as amended: a step appends a record for h only when the saved set holds
\* no unexpired entry for h; it appends one record and leaves h in the saved
\* set, unexpired.
C2_RecordOnlyWhenNotSaved ==
    [][\A h \in Hashes :
          Count(file', h) # Count(file, h) =>
             /\ ~TTLHas(saved, h, now)
             /\ file' = Append(file, h)
             /\ TTLHas(saved', h, now')]_vars

\* hash 1 was listed again after its record was written (its seen entry
\* had expired or been evicted), its detail was fetched again, and
\* saveIfMatch found it saved: there is still one record.
C2_Witness ==
    /\ Count(file, 1) = 1
    /\ \E c \in 1..Len(calls) : \E i \in DOMAIN calls[c].res :
          calls[c].res[i] = "dup"

\* C4: the queue never holds more than MAX_QUEUE entries, between the pushes
\* of one enqueueMany call (peak) as well as between the steps of the loop.
C4_QueueBounded ==
    Len(q) <= MAX_QUEUE /\ peak <= MAX_QUEUE

\* an enqueueMany call that found the queue full, dropped entries and left
\* the queue full
C4_Witness ==
    cut # <<>> /\ Len(q) = MAX_QUEUE /\ peak = MAX_QUEUE

\* C6: every hash occurs at most once in the queue.
C6_NoDuplicateInQueue ==
    \A h \in Hashes : Count(q, h) <= 1

\* C9: when the call loop() awaits ends and one of its hashes was dropped
\* after MAX_RETRY failed attempts, it ends by returning, with its batch
\* removed from the queue.
C9_ExhaustedHashDoesNotStopBatch ==
    [][\A c \in LiveCalls :
          (/\ pc' # "process"
           /\ \E i \in DOMAIN calls[c].res : calls[c].res[i] = "null")
          => q' = BatchRemoved(q, calls[c])]_vars

\* the getTxWithRetry operations a running processQueue call has in flight
Fetching(c) ==
    {w \in 1..Len(calls[c].ws) : calls[c].ws[w].r.st \in {"fetch", "sleep"}}

\* C11: after the append of the record of h has failed, the match is lost:
\* no later processQueue call fetches h while h's seen entry, which keeps h
\* out of the queue, is still unexpired.
C11_FailedMatchNotRetried ==
    \A c \in LiveCalls : \A w \in Fetching(c) :
        ~(calls[c].ws[w].h \in lost /\ TTLHas(seen, calls[c].ws[w].h, now))

\* listPendingHashes threw: every method failed
ListingFailed == method > Len(ListMethods)

\* C12: the listing methods are tried in the order of ListMethods, a method
\* only after the one before it failed, and the first after the sleep; when
\* the last has failed too, the cycle ends with the queue, seen and saved as
\* they were and nothing enqueued, the loop sleeps, and the next cycle
\* begins with the first method again.
C12_ListingFallback ==
    /\ [](method \in 1..(Len(ListMethods) + 1))
    /\ []((pc = "list") => ~ListingFailed)
    /\ []((pc = "sleep") => ENABLED WakeUp)
    /\ [][/\ method' # method =>
               \/ /\ method' = method + 1
                  /\ pc = "list"
                  /\ <<q, seen, saved, file, calls>>' = <<q, seen, saved, file, calls>>
                  /\ pc' = IF method < Len(ListMethods) THEN "list" ELSE "sleep"
               \/ /\ method' = 1
                  /\ pc = "sleep"
                  /\ pc' = "list"
          /\ (pc = "sleep" /\ pc' # pc) => (pc' = "list" /\ method' = 1)]_vars

\* every method has failed in a cycle that began with hashes in the seen
\* set and a record in the file; the loop sleeps
C12_Witness ==
    /\ ListingFailed
    /\ pc = "sleep"
    /\ seen.m # <<>>
    /\ file # <<>>

\* the results that are terminal states of a hash: Dropped, Matched
\* (recorded now, or found recorded), Ignored
Terminal == {"null", "saved", "dup", "ignored"}
\* a step takes a hash out of the queue
LeavesQueue == \E h \in Hashes : Count(q', h) < Count(q, h)
\* ... as the overflow trim of enqueueMany does
ByTrim ==
    /\ pc = "list"
    /\ cut' # <<>>
    /\ \A h \in Hashes : Count(q, h) - Count(q', h) <= Count(cut', h)
\* ... as the end of a processQueue call does, every hash of whose batch has
\* reached a terminal state, or reaches it with the fetch that settles now
ByBatch ==
    /\ pc = "process"
    /\ \E c \in LiveCalls :
          /\ q' = BatchRemoved(q, calls[c])
          /\ \A i \in DOMAIN calls[c].res :
                \/ calls[c].res[i] \in Terminal
                \/ /\ calls[c].res[i] = "none"
                   /\ \E w \in Fetching(c) : calls[c].ws[w].i = i

InFlight ==
    {cw \in (1..Len(calls)) \X (1..CONCURRENCY) :
        /\ cw[2] <= Len(calls[cw[1]].ws)
        /\ calls[cw[1]].ws[cw[2]].r.st \in {"fetch", "sleep"}}

\* C14: at most CONCURRENCY getTxWithRetry operations are in flight.
C14_InFlightBounded == Cardinality(InFlight) <= CONCURRENCY

\* the workers of a call that have not left their loop
Unfinished(c) == {w \in 1..Len(calls[c].ws) : calls[c].ws[w].r.st \notin {"done", "threw"}}
\* index i of the batch of call c was claimed: it has its result, or a
\* worker is fetching its hash
Claimed(c, i) == calls[c].res[i] # "none" \/ \E w \in Fetching(c) : calls[c].ws[w].i = i

\* C15: in every processQueue call no index is held by two workers or
\* claimed again once it has its result, the indexes below idx are the
\* claimed ones, and there are min(CONCURRENCY, N) workers; when the last
\* worker of a call leaves its loop every index of the batch was claimed;
\* and the queue changes only then, by losing the N-entry prefix.
C15_EachIndexClaimedOnce ==
    /\ [](\A c \in 1..Len(calls) :
            /\ Len(calls[c].ws) = Min(CONCURRENCY, calls[c].N)
            /\ \A w1, w2 \in Fetching(c) :
                  calls[c].ws[w1].i = calls[c].ws[w2].i => w1 = w2
            /\ \A i \in DOMAIN calls[c].res :
                  /\ Claimed(c, i) <=> i < calls[c].idx
                  /\ calls[c].res[i] # "none" =>
                        ~\E w \in Fetching(c) : calls[c].ws[w].i = i)
    /\ [][/\ Len(calls') < Len(calls) =>
               \E c \in 1..Len(calls) :
                  /\ Cardinality(Unfinished(c)) = 1
                  /\ \A i \in DOMAIN calls[c].res : Claimed(c, i)
          /\ q' # q =>
               \E c \in LiveCalls :
                  /\ Cardinality(Unfinished(c)) = 1
                  /\ q' = BatchRemoved(q, calls[c])]_vars

\* the hashes for which a getTxWithRetry operation is in flight
FetchedNow == {calls[cw[1]].ws[cw[2]].h : cw \in InFlight}

\* C19: a hash the overflow trim removed from the queue is not fetched, and
\* so yields no record, as long as the seen entry it had when it was removed
\* is unexpired and in the seen set.
C19_DroppedNotFetched == \A h \in dropped : h \notin FetchedNow

(***************************************************************************)
(* TTLSet                                                                  *)
(***************************************************************************)
Added == {k \in Hashes : addedAt[k] >= 0}
Lapsed(k) == now > addedAt[k] + set.ttl

\* C7 as stated: after add(k) at time t, has(k) is true at every time up to
\* t + TTL and false at every later time, whatever was added in between.
C7_HasUntilTtl == \A k \in Added : TTLHas(set, k, now) <=> ~Lapsed(k)

\* C7 as amended: after add(k) at time t, has(k) is false at every time
\* later than t + TTL; at every time up to and including t + TTL it is true
\* unless a cleanup has deleted k to bring the set back to max; the value
\* has(k) returns is the one just described; and once cleanup() has run
\* after the expiry of k, k is no longer stored.
C7_HasUntilTtlUnlessEvicted ==
    /\ \A k \in Added :
          /\ Lapsed(k) => ~TTLHas(set, k, now)
          /\ (~Lapsed(k) /\ k \notin evicted) => TTLHas(set, k, now)
          /\ (~Lapsed(k) /\ k \in evicted) => ~TTLHas(set, k, now)
          /\ (last.cleaned /\ Lapsed(k)) => k \notin MapKeys(set.m)
    /\ (last.op = "has" /\ last.k \in Added) =>
          (last.res <=> (~Lapsed(last.k) /\ last.k \notin evicted))

\* an expired key was asked for and reported absent, another key having
\* been added after it; and a key is still held at exactly t + TTL
C7_Witness ==
    /\ last.op = "has"
    /\ last.k \in Added
    /\ Lapsed(last.k)
    /\ ~last.res
    /\ \E k \in Added : k # last.k /\ addedAt[k] > addedAt[last.k]
                        /\ now = addedAt[k] + set.ttl /\ TTLHas(set, k, now)

\* C8: right after cleanup() has run, by itself or inside add(), the set
\* holds at most max keys.
C8_SizeBoundedAfterCleanup == last.cleaned => TTLSize(set) <= set.max

\* cleanup has just deleted an unexpired key because the set was over max
C8_Witness ==
    /\ last.cleaned
    /\ evicted # {}
    /\ TTLSize(set) = set.max

\* the map cleanup() finds when the step made calls it: for add(k), the
\* map with k set
MapAtCleanup == IF last'.op = "add" THEN MapSet(set.m, last'.k, now + set.ttl) ELSE set.m
ExpiryIn(m, k) == MapGet(m, k)

\* C16: cleanup() removes every expired entry; if more than max are left it
\* removes exactly the excess, and no removed unexpired entry expires later
\* than a retained one; if at most max are left it removes nothing else.
\* Retained entries keep their expiry and their order.
C16_CleanupPolicy ==
    [][last'.cleaned =>
          LET m0 == MapAtCleanup
              live == Unexpired(m0, now)
              kept == MapKeys(set'.m)
          IN /\ kept \subseteq live
             /\ Cardinality(live) <= set.max => kept = live
             /\ Cardinality(live) > set.max =>
                   /\ Cardinality(live \ kept) = Cardinality(live) - set.max
                   /\ \A r \in live \ kept : \A k \in kept :
                         ExpiryIn(m0, r) <= ExpiryIn(m0, k)
             /\ set'.m = SelectSeq(m0, LAMBDA e : e.k \in kept)]_vars

\* a cleanup has evicted a key that was due to expire before a key it kept
C16_Witness ==
    /\ last.cleaned
    /\ \E r \in evicted : \E i \in 1..Len(set.m) :
          /\ r \notin MapKeys(set.m)
          /\ addedAt[r] + set.ttl < set.m[i].exp
          /\ ~Lapsed(r)

\* C18: between operations the set never holds more than max keys; in
\* particular not when add() has returned.
C18_SizeBoundedAfterAdd == TTLSize(set) <= set.max

\* add() has just put a key into a full set and returned with the set full
C18_Witness ==
    /\ last.op = "add"
    /\ last.cleaned
    /\ last.k \in MapKeys(set.m)
    /\ evicted # {}
    /\ TTLSize(set) = set.max

(***************************************************************************)
(* enqueueMany                                                             *)
(***************************************************************************)
AtCapacity == returned /\ Len(before) = capacity /\ Len(arg) >= 1
\* how often a call that pushes n hashes on a full queue trims it
Trims(n) == (n - 1) \div DropCount(capacity) + 1

\* C5 as stated: a call with N unseen hashes on a queue at capacity leaves
\* min(capacity, capacity - drop + N) entries and removes exactly the drop
\* oldest entries.
C5_LengthAfterOverflow ==
    AtCapacity =>
        /\ Len(q) = Min(capacity, capacity - DropCount(capacity) + Len(arg))
        /\ cut = SubSeq(before, 1, DropCount(capacity))

\* C5 as amended: a call with N unseen hashes, 1 <= N <= drop, on a queue
\* at capacity leaves capacity - drop + N entries, the entries removed are
\* exactly the drop oldest, and the rest is followed by the new hashes in
\* order.  With N > drop the queue is trimmed again each time it is full:
\* it is trimmed ceil(N / drop) times, always of its oldest entries, and
\* holds capacity - drop + ((N - 1) mod drop) + 1 entries in the end.
C5_LengthAfterOverflowByTrims ==
    AtCapacity =>
        LET drop == DropCount(capacity)
            n == Len(arg)
        IN /\ n <= drop =>
                /\ Len(q) = capacity - drop + n
                /\ cut = SubSeq(before, 1, drop)
                /\ q = SubSeq(before, drop + 1, capacity) \o arg
           /\ Len(q) = capacity - drop + ((n - 1) % drop) + 1
           /\ cut = SubSeq(before \o arg, 1, Trims(n) * drop)
           /\ cut \o q = before \o arg

\* a full queue of capacity 101 was given two hashes and trimmed once, by two
C5_Witness ==
    /\ AtCapacity
    /\ DropCount(capacity) = 2
    /\ Len(arg) = 2
    /\ Len(cut) = 2
    /\ Len(q) = capacity

(***************************************************************************)
(* getTxWithRetry / fetchTxWithRetry                                       *)
(***************************************************************************)
MaxRetryOf(s) == IF s = "fetchhhh" THEN MAX_RETRY ELSE ID_MAX_RETRY
Positions(e) == {i \in 1..Len(hist) : hist[i] = e}
Failures == Positions("null") \cup Positions("throw")

\* C10: one invocation calls the fetch at most MAX_RETRY times, calls it no
\* more once a call returned a detail, goes on after a raised failure as
\* after an absent result, waits one backoff between two calls, and returns
\* absent only after MAX_RETRY unsuccessful calls.
C10_BoundedRetry ==
    /\ Cardinality(Positions("call")) <= MaxRetryOf(script)
    /\ \A i \in Positions("tx") : i = Len(hist) /\ retry.st = "tx"
    /\ \A i \in Failures : i < Len(hist) /\ hist[i + 1] = "sleep"
    /\ \A i, j \in Positions("call") :
          i < j => \E k \in Positions("sleep") : i < k /\ k < j
    /\ \A i, j \in Positions("sleep") :
          i < j => \E k \in Positions("call") : i < k /\ k < j
    /\ retry.st = "null" =>
          /\ Cardinality(Positions("call")) = MaxRetryOf(script)
          /\ Cardinality(Failures) = MaxRetryOf(script)
          /\ Positions("tx") = {}

\* the call returned absent after a raised failure and an absent result
C10_Witness ==
    /\ retry.st = "null"
    /\ Positions("throw") # {}
    /\ Positions("null") # {}
    /\ script = "id"

(***************************************************************************)
(* src/id.ts, and both scripts                                             *)
(***************************************************************************)
HasTargetRecipient(h) ==
    ToLower(Recipient(h)) # 0 /\ ToLower(Recipient(h)) = targetAddress
ToTarget == {h \in Hashes : HasTargetRecipient(h)}

\* C1 as stated: for a hash whose transaction goes to the target, however
\* pushes, backfills and worker ticks interleave, exactly one record is
\* appended: one once a fetch of the hash has resolved, never a second.
C1_ExactlyOneRecord ==
    \A h \in ToTarget :
        /\ Count(idFile, h) <= 1
        /\ h \in resolved => Count(idFile, h) = 1

\* C1 as amended: for such a hash at most one record is ever appended;
\* none before a fetch of it has resolved; and once a fetch has resolved,
\* exactly one, unless the append failed: then the failure is logged, and
\* there is no record of the hash, then or later.
C1_OneRecordUnlessAppendFailed ==
    \A h \in ToTarget :
        /\ Count(idFile, h) <= 1
        /\ h \notin resolved => Count(idFile, h) = 0
        /\ h \in resolved => Count(idFile, h) = (IF h \in lost THEN 0 ELSE 1)
        /\ Count(idFile, h) = 1 <=> h \in idSaved

\* a hash going to the target came from both sources, its fetch resolved
\* after a retry in a batch of two, and it has its one record
C1_Witness ==
    /\ \E h \in ToTarget :
          /\ h \in pushed \cap filled
          /\ h \in resolved
          /\ Count(idFile, h) = 1
    /\ ticks >= 2
    /\ tasks # {}

\* C3: a transaction whose recipient is missing or is not the target is
\* never recorded and never marked saved, by either script: every record,
\* every saved hash and every detail that got past the recipient test
\* of a running processQueue call belongs to a transaction that goes to
\* the target.
C3_OnlyTargetRecorded ==
    /\ Range(file) \subseteq ToTarget
    /\ MapKeys(saved.m) \subseteq ToTarget
    /\ Range(idFile) \subseteq ToTarget
    /\ idSaved \subseteq ToTarget
    /\ lost \subseteq ToTarget
    /\ \A c \in LiveCalls : \A i \in DOMAIN calls[c].res :
          calls[c].res[i] \in {"saved", "dup", "failed"} =>
             QAt(q, i) \in ToTarget

\* fetchhhh.ts has a record, and has just let go a detail whose recipient
\* is not the target
C3_Witness ==
    /\ file # <<>>
    /\ \E c \in LiveCalls : \E i \in DOMAIN calls[c].res :
          /\ calls[c].res[i] = "ignored"
          /\ QAt(q, i) \notin ToTarget

\* the entries of the snapshot from which a hash can be had
WellFormed == {i \in 1..Len(arg) : EntryHash(arg[i]) # 0}

\* C17: whatever malformed entries a snapshot holds, every well-formed entry
\* of it is enqueued by the backfill call: its hash is in the seen set
\* afterwards, and the queue holds it at most once.
C17_OnlyMalformedSkipped ==
    returned =>
        \A i \in WellFormed :
            LET h == ToLower(EntryHash(arg[i]))
            IN /\ h \in idSeen
               /\ Count(idQ, h) <= 1

\* the fetchTxWithRetry calls in flight for hash h
TasksOf(h) == {t \in tasks : t.h = h}
\* the hashes handed to fetchTxWithRetry by the step
Handed == {t.h : t \in tasks'} \ {t.h : t \in tasks}
\* qv is qv1 without entries appended at its end
IsPrefix(qv, qv1) == Len(qv) <= Len(qv1) /\ SubSeq(qv1, 1, Len(qv)) = qv

\* C20: a hash is never both queued and in flight, nor queued twice, nor in
\* flight for two ticks; it enters the queue only when it was never seen, and
\* stays seen; it is handed to fetchTxWithRetry only by the step of a worker
\* tick that removes it from the front of the queue; any other step leaves
\* the queue as it is or appends to it.
C20_OneTickPerHash ==
    /\ [](\A h \in Hashes : Count(idQ, h) + Cardinality(TasksOf(h)) <= 1)
    /\ [](Range(idQ) \cup {t.h : t \in tasks} \subseteq idSeen)
    /\ [][/\ idSeen \subseteq idSeen'
          /\ \A h \in Hashes : Count(idQ', h) > Count(idQ, h) => h \notin idSeen
          /\ \A h \in Handed :
                /\ ticks' = ticks + 1
                /\ h \in Range(Spliced(idQ, BATCH_SIZE))
                /\ \A t \in tasks' : t.h = h => t.tick = ticks'
          /\ IF ticks' = ticks
             THEN IsPrefix(idQ, idQ')
             ELSE /\ idQ' = Splice(idQ, BATCH_SIZE)
                  /\ Handed = Range(Spliced(idQ, BATCH_SIZE))
                  /\ \A t \in tasks : t \in tasks']_vars

\* two ticks are in flight, and a hash enqueued meanwhile waits in the queue
C20_Witness ==
    /\ \E t1, t2 \in tasks : t1.tick # t2.tick
    /\ idQ # <<>>
    /\ prog = "id"

=============================================================================
